---- MODULE Spec2Model ----
(***************************************************************************)
(* Risk-aware routing of Vaayu: services/navigation.py (graph build,       *)
(* edge weights, Dijkstra search) and the /navigate/safest-route handler   *)
(* of api/routes.py, together with the risk_zones table they read.         *)
(*                                                                         *)
(* Coordinates are integers in units of 1e-4 degree (-74.0060 is -740060). *)
(* A midpoint (a + b) / 2 is kept as the sum a + b and compared with twice *)
(* a zone boundary, so no division is lost.                                *)
(***************************************************************************)
EXTENDS Integers, Sequences, FiniteSets, TLC

\* Risk-zone changes committed by the administrative path while one route
\* request is in flight.
MaxUpdates == 1

\* Guardians one user may register.
MaxGuardians == 2

(***************************************************************************)
(* Map data                                                                *)
(***************************************************************************)

\* "reference" is the map of navigation.py. "isolated" is the same map with
\* the extra node F_Isolated that no edge touches; the module's map data is
\* the only input that decides whether the NetworkXNoPath branch can run.
MapIds == {"reference", "isolated"}

ReferenceKeys ==
    <<"A_Home", "B_Intersection", "C_Risky_Area", "D_Intersection", "E_Work">>

MAP_NODE_KEYS(m) ==
    IF m = "isolated" THEN Append(ReferenceKeys, "F_Isolated") ELSE ReferenceKeys

NodeCoords ==
    [A_Home         |-> <<-740060, 407128>>,
     B_Intersection |-> <<-739960, 407228>>,
     C_Risky_Area   |-> <<-739860, 407328>>,
     D_Intersection |-> <<-739950, 407428>>,
     E_Work         |-> <<-739850, 407528>>,
     F_Isolated     |-> <<-740200, 407000>>]

SeqRange(s) == {s[k] : k \in 1..Len(s)}

\* The dict MAP_NODES: node name -> (lon, lat).
MAP_NODES(m) == [n \in SeqRange(MAP_NODE_KEYS(m)) |-> NodeCoords[n]]

MAP_EDGES ==
    <<<<"A_Home", "B_Intersection">>,
      <<"B_Intersection", "C_Risky_Area">>,
      <<"B_Intersection", "D_Intersection">>,
      <<"C_Risky_Area", "E_Work">>,
      <<"D_Intersection", "E_Work">>>>

\* Identifiers a client may send: every name of either map and one unknown.
Identifiers == SeqRange(MAP_NODE_KEYS("isolated")) \cup {"Z_Unknown"}

(***************************************************************************)
(* risk_zones table                                                        *)
(***************************************************************************)

\* Rows the table may hold: a polygon (here an axis-parallel closed box) and
\* a severity.  EastVillage has the midpoint of C_Risky_Area - E_Work exactly
\* on its eastern boundary.
ZoneCatalogue ==
    { [name |-> "EastVillage", risk_score |-> 9,
       lonMin |-> -739920, lonMax |-> -739855, latMin |-> 407250, latMax |-> 407450],
      [name |-> "Flatiron", risk_score |-> 5,
       lonMin |-> -739970, lonMax |-> -739940, latMin |-> 407300, latMax |-> 407350],
      [name |-> "Midtown", risk_score |-> 7,
       lonMin |-> -739905, lonMax |-> -739895, latMin |-> 407460, latMax |-> 407500],
      [name |-> "Downtown", risk_score |-> 3,
       lonMin |-> -740050, lonMax |-> -740000, latMin |-> 407150, latMax |-> 407200] }

\* A containment test that leaves the boundary out (ST_Contains).
ST_Contains(zone, p2) ==
    /\ 2 * zone.lonMin < p2[1] /\ p2[1] < 2 * zone.lonMax
    /\ 2 * zone.latMin < p2[2] /\ p2[2] < 2 * zone.latMax

\* ST_DWithin(zone, point, 0): the point is at distance zero from the
\* polygon, boundary included.  p2 is twice the point.
ST_DWithin0(zone, p2) ==
    /\ 2 * zone.lonMin <= p2[1] /\ p2[1] <= 2 * zone.lonMax
    /\ 2 * zone.latMin <= p2[2] /\ p2[2] <= 2 * zone.latMax

(***************************************************************************)
(* get_edge_risk_weight                                                    *)
(***************************************************************************)

RISKY_WEIGHT == 100
SAFE_WEIGHT == 1

\* Twice (mid_lon, mid_lat).
Midpoint2(node1_coords, node2_coords) ==
    <<node1_coords[1] + node2_coords[1], node1_coords[2] + node2_coords[2]>>

\* The query with its filter left out: any row of the table matches.
RiskZoneQuery_unfiltered(risk_zones, p2) == risk_zones

\* db.query(RiskZone).filter(ST_DWithin(zone, midpoint, 0)).first(): the rows
\* that match; first() is None iff there is none.
RiskZoneQuery(risk_zones, p2) == {z \in risk_zones : ST_DWithin0(z, p2)}

\* The two branches of the if exchanged.
get_edge_risk_weight_inverted(node1_coords, node2_coords, db) ==
    IF ~db.up
    THEN [raised |-> TRUE, value |-> 0]
    ELSE [raised |-> FALSE,
          value  |-> IF RiskZoneQuery(db.risk_zones,
                                      Midpoint2(node1_coords, node2_coords)) # {}
                     THEN SAFE_WEIGHT
                     ELSE RISKY_WEIGHT]

\* The query wrapped in try/except with the zone-free weight as fallback.
get_edge_risk_weight_swallow(node1_coords, node2_coords, db) ==
    [raised |-> FALSE,
     value  |-> IF db.up /\ RiskZoneQuery(db.risk_zones,
                                          Midpoint2(node1_coords, node2_coords)) # {}
                THEN RISKY_WEIGHT
                ELSE SAFE_WEIGHT]

\* db is [up, risk_zones]: the query raises when the database cannot be
\* reached, and nothing in get_edge_risk_weight catches it.
get_edge_risk_weight(node1_coords, node2_coords, db) ==
    IF ~db.up
    THEN [raised |-> TRUE, value |-> 0]
    ELSE [raised |-> FALSE,
          value  |-> IF RiskZoneQuery(db.risk_zones,
                                      Midpoint2(node1_coords, node2_coords)) # {}
                     THEN RISKY_WEIGHT
                     ELSE SAFE_WEIGHT]

(***************************************************************************)
(* networkx Graph                                                          *)
(***************************************************************************)

\* nx.Graph(): nodes in insertion order, edges in insertion order.
EmptyGraph == [nodes |-> <<>>, edges |-> <<>>]

add_node(G, n) ==
    IF n \in SeqRange(G.nodes) THEN G ELSE [G EXCEPT !.nodes = Append(@, n)]

SameEdge(ed, u, v) == (ed.u = u /\ ed.v = v) \/ (ed.u = v /\ ed.v = u)

\* G.add_edge(u, v, weight=w): adds missing endpoints; an edge already in the
\* graph keeps its place and takes the new weight.
add_edge(G, u, v, w) ==
    LET G1 == add_node(add_node(G, u), v)
    IN IF \E k \in 1..Len(G1.edges) : SameEdge(G1.edges[k], u, v)
       THEN [G1 EXCEPT !.edges =
                [k \in 1..Len(G1.edges) |->
                    IF SameEdge(G1.edges[k], u, v)
                    THEN [G1.edges[k] EXCEPT !.weight = w]
                    ELSE G1.edges[k]]]
       ELSE [G1 EXCEPT !.edges = Append(@, [u |-> u, v |-> v, weight |-> w])]

RECURSIVE AddNodes(_, _, _)
AddNodes(G, keys, k) ==
    IF k > Len(keys) THEN G ELSE AddNodes(add_node(G, keys[k]), keys, k + 1)

\* The first loop of create_map_graph: G = nx.Graph(), one add_node per key.
NewMapGraph(m) == AddNodes(EmptyGraph, MAP_NODE_KEYS(m), 1)

\* G._adj[x]: the edges at x, in the order they were added.
AdjEdges(G, x) == SelectSeq(G.edges, LAMBDA ed : ed.u = x \/ ed.v = x)

Neighbour(ed, x) == IF ed.u = x THEN ed.v ELSE ed.u

(***************************************************************************)
(* nx.dijkstra_path                                                        *)
(***************************************************************************)

\* The search called without weight='weight': every edge costs one hop.
EdgeCost_hops(ed) == 1

\* weight='weight': the cost of an edge is its weight attribute.
EdgeCost(ed) == ed.weight

\* The heap entry popped next: least (distance, counter).
HeapMin(fringe) ==
    CHOOSE t \in fringe :
        \A t2 \in fringe : t[1] < t2[1] \/ (t[1] = t2[1] /\ t[2] <= t2[2])

Put(f, k, val) == [x \in (DOMAIN f) \cup {k} |-> IF x = k THEN val ELSE f[x]]

\* paths[u] = paths[v] + [u]
ExtendPath(paths, v, u) == Append(paths[v], u)

\* The loop over G._adj[v] of _dijkstra_multisource, from neighbour k on.
RECURSIVE Relax(_, _, _, _)
Relax(st, v, nbrs, k) ==
    IF k > Len(nbrs) \/ st.error
    THEN st
    ELSE LET u       == Neighbour(nbrs[k], v)
             vu_dist == st.dist[v] + EdgeCost(nbrs[k])
         IN IF u \in DOMAIN st.dist
            THEN IF vu_dist < st.dist[u]
                 THEN [st EXCEPT !.error = TRUE]   \* ValueError: contradictory paths
                 ELSE Relax(st, v, nbrs, k + 1)
            ELSE IF u \notin DOMAIN st.seen \/ vu_dist < st.seen[u]
                 THEN Relax([st EXCEPT
                                !.seen   = Put(@, u, vu_dist),
                                !.fringe = @ \cup {<<vu_dist, st.c, u>>},
                                !.c      = @ + 1,
                                !.paths  = Put(@, u, ExtendPath(st.paths, v, u))],
                            v, nbrs, k + 1)
                 ELSE Relax(st, v, nbrs, k + 1)

\* while fringe: pop, skip a node already final, stop at the target.
RECURSIVE DijkstraLoop(_, _, _)
DijkstraLoop(G, st, target) ==
    IF st.fringe = {} \/ st.error
    THEN st
    ELSE LET top    == HeapMin(st.fringe)
             v      == top[3]
             popped == [st EXCEPT !.fringe = @ \ {top}]
         IN IF v \in DOMAIN popped.dist
            THEN DijkstraLoop(G, popped, target)
            ELSE LET fin == [popped EXCEPT !.dist = Put(@, v, top[1])]
                 IN IF v = target
                    THEN fin
                    ELSE DijkstraLoop(G, Relax(fin, v, AdjEdges(G, v), 1), target)

DijkstraStart(source) ==
    [dist   |-> <<>>,
     seen   |-> Put(<<>>, source, 0),
     paths  |-> Put(<<>>, source, <<source>>),
     fringe |-> {<<0, 0, source>>},
     c      |-> 1,
     error  |-> FALSE]

\* nx.dijkstra_path(G, source, target, weight='weight'): the path, or the
\* exception it raises.
dijkstra_path(G, source, target) ==
    IF source \notin SeqRange(G.nodes)
    THEN [kind |-> "NodeNotFound", path |-> <<>>]
    ELSE IF target = source
    THEN [kind |-> "path", path |-> <<target>>]
    ELSE LET st == DijkstraLoop(G, DijkstraStart(source), target)
         IN IF st.error
            THEN [kind |-> "ValueError", path |-> <<>>]
            ELSE IF target \in DOMAIN st.dist
            THEN [kind |-> "path", path |-> st.paths[target]]
            ELSE [kind |-> "NetworkXNoPath", path |-> <<>>]

(***************************************************************************)
(* find_safest_route and the /navigate/safest-route handler                *)
(***************************************************************************)

\* The check with a guard against start_node == end_node added.
ValidNodes_distinct(m, start, end) ==
    /\ start \in DOMAIN MAP_NODES(m)
    /\ end \in DOMAIN MAP_NODES(m)
    /\ start # end

\* The check with its second half left out: only start_node is looked up.
ValidNodes_startOnly(m, start, end) == start \in DOMAIN MAP_NODES(m)

\* if start_node not in MAP_NODES or end_node not in MAP_NODES: return None
ValidNodes(m, start, end) ==
    start \in DOMAIN MAP_NODES(m) /\ end \in DOMAIN MAP_NODES(m)

None == [kind |-> "None", path_nodes |-> <<>>, path_coordinates |-> <<>>]

Raised == [kind |-> "raised", path_nodes |-> <<>>, path_coordinates |-> <<>>]

\* The try block with source and target exchanged in the call.
SearchRoute_swapped(m, G, start, end) ==
    LET r == dijkstra_path(G, end, start)
    IN IF r.kind = "path"
       THEN [kind             |-> "route",
             path_nodes       |-> r.path,
             path_coordinates |-> [k \in 1..Len(r.path) |-> MAP_NODES(m)[r.path[k]]]]
       ELSE IF r.kind = "NetworkXNoPath" THEN None ELSE Raised

\* The try block of find_safest_route: only NetworkXNoPath is caught.
SearchRoute(m, G, start, end) ==
    LET r == dijkstra_path(G, start, end)
    IN IF r.kind = "path"
       THEN [kind             |-> "route",
             path_nodes       |-> r.path,
             path_coordinates |-> [k \in 1..Len(r.path) |-> MAP_NODES(m)[r.path[k]]]]
       ELSE IF r.kind = "NetworkXNoPath" THEN None ELSE Raised

NotFoundText == "No path found or invalid nodes provided. Valid nodes are: "

\* get_safest_route: 404 with the valid node names when the route is None,
\* the route itself otherwise; an exception that escapes is a 500.
Respond(m, route) ==
    IF route.kind = "route"
    THEN [status |-> 200, path_nodes |-> route.path_nodes,
          path_coordinates |-> route.path_coordinates,
          detail |-> "", valid_nodes |-> <<>>]
    ELSE IF route.kind = "None"
    THEN [status |-> 404, path_nodes |-> <<>>, path_coordinates |-> <<>>,
          detail |-> NotFoundText, valid_nodes |-> MAP_NODE_KEYS(m)]
    ELSE [status |-> 500, path_nodes |-> <<>>, path_coordinates |-> <<>>,
          detail |-> "Internal Server Error", valid_nodes |-> <<>>]

NoResponse ==
    [status |-> 0, path_nodes |-> <<>>, path_coordinates |-> <<>>,
     detail |-> "", valid_nodes |-> <<>>]

(***************************************************************************)
(* State                                                                   *)
(***************************************************************************)

VARIABLES
    mapId,         \* which map the module data holds
    risk_zones,    \* rows of the risk_zones table
    pc,            \* position of the route request: idle, build, search, done
    start_node,    \* RouteRequest.start_node
    end_node,      \* RouteRequest.end_node
    i,             \* index into MAP_EDGES of the next edge of create_map_graph
    graph,         \* the local G of create_map_graph / graph of find_safest_route
    response,      \* what the handler sent
    observed,      \* history: the table states this request's queries read
    queries,       \* history: risk-zone queries this request issued
    searched,      \* history: nx.dijkstra_path was called for this request
    lookupFailed,  \* history: a risk-zone query of this request raised
    sinceAnswer,   \* history: "never" answered a request yet, or the table is
                   \* "unchanged" / "changed" since the last answer went out
    updates,       \* table changes since this request began
    last           \* history: the request answered last and its answer, kept
                   \* while the table has not changed since that request began

routeVars == <<mapId, risk_zones, pc, start_node, end_node, i, graph, response,
               observed, queries, searched, lookupFailed, sinceAnswer, updates, last>>

VARIABLES
    user,           \* the users row with id 1, its location and its guardians
    sosPc,          \* position of the SOS request: idle, send, done
    sosUser,        \* the user object create_sos_alert loaded
    guardianIx,     \* index of the guardian the loop is at
    sent_messages,  \* the list sent_messages
    sosResponse,    \* what create_sos_alert answered
    attempts,       \* history: the sends tried, each with its outcome
    clientFailed    \* history: Client(...) raised for this request

sosVars == <<user, sosPc, sosUser, guardianIx, sent_messages, sosResponse, attempts,
             clientFailed>>

vars == <<routeVars, sosVars>>

request == <<pc, start_node, end_node, i, graph, response,
             observed, queries, searched, lookupFailed>>

NoLast == [start |-> "", end |-> "", response |-> NoResponse]

NoLocation == <<>>

NoUser == [exists |-> FALSE, name |-> "", last_known_location |-> NoLocation,
           guardians |-> <<>>]

NoSosResponse == [status |-> 0, detail |-> "", details |-> <<>>]

Init ==
    /\ user = NoUser
    /\ sosPc = "idle"
    /\ sosUser = NoUser
    /\ guardianIx = 1
    /\ sent_messages = <<>>
    /\ sosResponse = NoSosResponse
    /\ attempts = <<>>
    /\ clientFailed = FALSE
    /\ mapId \in MapIds
    /\ risk_zones = {}
    /\ pc = "idle"
    /\ start_node = ""
    /\ end_node = ""
    /\ i = 1
    /\ graph = EmptyGraph
    /\ response = NoResponse
    /\ observed = {}
    /\ queries = 0
    /\ searched = FALSE
    /\ lookupFailed = FALSE
    /\ sinceAnswer = "never"
    /\ updates = 0
    /\ last = NoLast

(***************************************************************************)
(* The administrative path: rows committed to or deleted from risk_zones   *)
(***************************************************************************)

CanUpdate == pc = "idle" \/ updates < MaxUpdates

Counted == IF pc = "idle" THEN 0 ELSE updates + 1

Touched == IF sinceAnswer = "never" THEN "never" ELSE "changed"

AddZone(z) ==
    /\ CanUpdate
    /\ z \notin risk_zones
    /\ risk_zones' = risk_zones \cup {z}
    /\ updates' = Counted
    /\ sinceAnswer' = Touched
    /\ last' = NoLast
    /\ UNCHANGED <<mapId, request, sosVars>>

RemoveZone(z) ==
    /\ CanUpdate
    /\ z \in risk_zones
    /\ risk_zones' = risk_zones \ {z}
    /\ updates' = Counted
    /\ sinceAnswer' = Touched
    /\ last' = NoLast
    /\ UNCHANGED <<mapId, request, sosVars>>

(***************************************************************************)
(* One route request                                                       *)
(***************************************************************************)

\* POST /navigate/safest-route up to the first database query: the check of
\* the two names and, when both are known, G = nx.Graph() with its nodes.
Request(start, end) ==
    /\ pc = "idle"
    /\ start_node' = start
    /\ end_node' = end
    /\ i' = 1
    /\ observed' = {}
    /\ queries' = 0
    /\ searched' = FALSE
    /\ lookupFailed' = FALSE
    /\ updates' = 0
    /\ IF ValidNodes(mapId, start, end)
       THEN /\ pc' = "build"
            /\ graph' = NewMapGraph(mapId)
            /\ response' = NoResponse
       ELSE /\ pc' = "done"
            /\ graph' = EmptyGraph
            /\ response' = Respond(mapId, None)
    /\ last' = IF last.start = start /\ last.end = end THEN last ELSE NoLast
    /\ UNCHANGED <<mapId, risk_zones, sinceAnswer, sosVars>>

\* One turn of the second loop of create_map_graph: one query of the table
\* as it is now, then add_edge.  A query that raises ends the request.
BuildStep(up) ==
    /\ pc = "build"
    /\ i <= Len(MAP_EDGES)
    /\ LET u  == MAP_EDGES[i][1]
           v  == MAP_EDGES[i][2]
           db == [up |-> up, risk_zones |-> risk_zones]
           w  == get_edge_risk_weight(MAP_NODES(mapId)[u], MAP_NODES(mapId)[v], db)
       IN /\ queries' = queries + 1
          /\ lookupFailed' = (lookupFailed \/ ~up)
          /\ IF w.raised
             THEN /\ pc' = "done"
                  /\ response' = Respond(mapId, Raised)
                  /\ UNCHANGED <<graph, i, observed>>
             ELSE /\ graph' = add_edge(graph, u, v, w.value)
                  /\ i' = i + 1
                  /\ observed' = IF up THEN observed \cup {risk_zones} ELSE observed
                  /\ pc' = IF i = Len(MAP_EDGES) THEN "search" ELSE "build"
                  /\ UNCHANGED response
    /\ UNCHANGED <<mapId, risk_zones, start_node, end_node, searched,
                   sinceAnswer, updates, last, sosVars>>

LookupEdge == BuildStep(TRUE)

LookupFails == BuildStep(FALSE)

\* The search with ties between equal-cost paths broken at random: it may
\* visit the neighbours of a node in either order.
Search_randomTies ==
    /\ pc = "search"
    /\ searched' = TRUE
    /\ \E g \in {graph,
                 [graph EXCEPT !.edges =
                     [k \in 1..Len(graph.edges) |->
                         graph.edges[Len(graph.edges) + 1 - k]]]} :
          response' = Respond(mapId, SearchRoute(mapId, g, start_node, end_node))
    /\ pc' = "done"
    /\ UNCHANGED <<mapId, risk_zones, start_node, end_node, i, graph,
                   observed, queries, lookupFailed, sinceAnswer, updates, last,
                   sosVars>>

\* The rest of find_safest_route and of the handler: the search on the built
\* graph and the response.
Search ==
    /\ pc = "search"
    /\ searched' = TRUE
    /\ response' = Respond(mapId, SearchRoute(mapId, graph, start_node, end_node))
    /\ pc' = "done"
    /\ UNCHANGED <<mapId, risk_zones, start_node, end_node, i, graph,
                   observed, queries, lookupFailed, sinceAnswer, updates, last,
                   sosVars>>

\* The response has gone out; the request's locals are dropped.
Return ==
    /\ pc = "done"
    /\ pc' = "idle"
    /\ start_node' = ""
    /\ end_node' = ""
    /\ i' = 1
    /\ graph' = EmptyGraph
    /\ response' = NoResponse
    /\ observed' = {}
    /\ queries' = 0
    /\ searched' = FALSE
    /\ lookupFailed' = FALSE
    /\ sinceAnswer' = "unchanged"
    /\ updates' = 0
    /\ last' = IF updates = 0
               THEN [start |-> start_node, end |-> end_node, response |-> response]
               ELSE NoLast
    /\ UNCHANGED <<mapId, risk_zones, sosVars>>

Next ==
    \/ \E z \in ZoneCatalogue : AddZone(z)
    \/ \E z \in ZoneCatalogue : RemoveZone(z)
    \/ \E start \in Identifiers, end \in Identifiers : Request(start, end)
    \/ LookupEdge
    \/ LookupFails
    \/ Search
    \/ Return

Spec == Init /\ [][Next]_vars

(***************************************************************************)
(* Vocabulary of the properties                                            *)
(***************************************************************************)

KnownNodes == SeqRange(MAP_NODE_KEYS(mapId))

HasEdge(G, a, b) == \E k \in 1..Len(G.edges) : SameEdge(G.edges[k], a, b)

WeightOf(G, a, b) ==
    LET k == CHOOSE k \in 1..Len(G.edges) : SameEdge(G.edges[k], a, b)
    IN G.edges[k].weight

\* p is a walk of G: every consecutive pair is an edge of G.
IsWalk(G, p) == \A k \in 1..(Len(p) - 1) : HasEdge(G, p[k], p[k + 1])

RECURSIVE WalkWeight(_, _, _)
WalkWeight(G, p, k) ==
    IF k >= Len(p) THEN 0 ELSE WeightOf(G, p[k], p[k + 1]) + WalkWeight(G, p, k + 1)

SetMin(S) == CHOOSE x \in S : \A y \in S : x <= y

\* Least total weight from source to every node it reaches, by relaxing all
\* edges once per round (Bellman-Ford), independently of the search above.
RelaxAll(G, d) ==
    LET Cand(x) ==
            (IF x \in DOMAIN d THEN {d[x]} ELSE {})
            \cup {d[Neighbour(G.edges[k], x)] + G.edges[k].weight :
                    k \in {j \in 1..Len(G.edges) :
                             /\ G.edges[j].u = x \/ G.edges[j].v = x
                             /\ Neighbour(G.edges[j], x) \in DOMAIN d}}
    IN [x \in {y \in SeqRange(G.nodes) : Cand(y) # {}} |-> SetMin(Cand(x))]

RECURSIVE Rounds(_, _, _)
Rounds(G, d, n) == IF n = 0 THEN d ELSE Rounds(G, RelaxAll(G, d), n - 1)

MinDist(G, source) == Rounds(G, Put(<<>>, source, 0), Len(G.nodes))

\* The graph with only its weight-1 edges.
ZoneFreeGraph(G) == [G EXCEPT !.edges = SelectSeq(@, LAMBDA ed : ed.weight = 1)]

Succeeded == pc = "done" /\ response.status = 200

\* create_map_graph has returned for the request in flight.
Built == pc = "search" \/ (pc = "done" /\ searched)

\* The midpoint as the claims state it: the average of the two longitudes and
\* of the two latitudes (every sum of two map coordinates is even).
ArithmeticMidpoint(a, b) == <<(a[1] + b[1]) \div 2, (a[2] + b[2]) \div 2>>

InsideZone(p, z) ==
    /\ z.lonMin <= p[1] /\ p[1] <= z.lonMax
    /\ z.latMin <= p[2] /\ p[2] <= z.latMax

\* The edge u - v has its midpoint inside a zone of the table state Z.
EdgeInZone(u, v, Z) ==
    \E z \in Z : InsideZone(ArithmeticMidpoint(NodeCoords[u], NodeCoords[v]), z)

ExpectedWeight(u, v, Z) == IF EdgeInZone(u, v, Z) THEN 100 ELSE 1

(***************************************************************************)
(* C1                                                                      *)
(***************************************************************************)

\* C1: the path of every successful response is a walk from start_node to
\* end_node in the graph built for the request, and its total weight is the
\* least total weight of any path between the two nodes in that graph.
C1_MinimumWeight ==
    Succeeded =>
        LET least == MinDist(graph, start_node)
        IN /\ Len(response.path_nodes) >= 1
           /\ response.path_nodes[1] = start_node
           /\ response.path_nodes[Len(response.path_nodes)] = end_node
           /\ IsWalk(graph, response.path_nodes)
           /\ end_node \in DOMAIN least
           /\ WalkWeight(graph, response.path_nodes, 1) = least[end_node]

\* A request answered on a graph where the detour is the cheaper way round.
C1_Witness ==
    /\ Succeeded
    /\ start_node = "A_Home" /\ end_node = "E_Work"
    /\ WeightOf(graph, "B_Intersection", "C_Risky_Area") = 100
    /\ WeightOf(graph, "B_Intersection", "D_Intersection") = 1
    /\ WeightOf(graph, "D_Intersection", "E_Work") = 1
    /\ WalkWeight(graph, response.path_nodes, 1) = 3

(***************************************************************************)
(* C2                                                                      *)
(***************************************************************************)

\* C2: every edge of every graph under construction or built is a declared
\* edge with weight 1 or 100, hence positive; a built graph has every declared
\* edge; and the weight an edge gets when it is added is 100 if and only if
\* the arithmetic midpoint of its endpoints lies inside, or on the boundary
\* of, at least one zone of the table as it is at that lookup.
C2_EdgeWeights ==
    /\ [](\A k \in 1..Len(graph.edges) :
            /\ graph.edges[k].weight \in {1, 100}
            /\ graph.edges[k].weight > 0
            /\ k <= Len(MAP_EDGES)
            /\ <<graph.edges[k].u, graph.edges[k].v>> = MAP_EDGES[k])
    /\ [](Built => Len(graph.edges) = Len(MAP_EDGES))
    /\ [][Len(graph'.edges) = Len(graph.edges) + 1 =>
            LET ed == graph'.edges[Len(graph'.edges)]
            IN (ed.weight = 100) <=> EdgeInZone(ed.u, ed.v, risk_zones)]_vars

\* A built graph holding an edge whose midpoint is on a zone's boundary
\* (weight 100) next to zone-free edges (weight 1), the table being non-empty.
C2_Witness ==
    /\ pc = "search"
    /\ observed = {risk_zones}
    /\ {z.name : z \in risk_zones} = {"EastVillage", "Downtown"}
    /\ WeightOf(graph, "C_Risky_Area", "E_Work") = 100
    /\ WeightOf(graph, "A_Home", "B_Intersection") = 100
    /\ WeightOf(graph, "B_Intersection", "D_Intersection") = 1
    /\ WeightOf(graph, "D_Intersection", "E_Work") = 1

(***************************************************************************)
(* C3                                                                      *)
(***************************************************************************)

\* C3: a request with start_node or end_node outside the known node set is
\* answered with the not-found response that lists the valid node names (the
\* five names, on the reference map), and it never builds a graph, never
\* queries the risk zones and never calls the path search.
C3_UnknownNode ==
    (pc # "idle" /\ (start_node \notin KnownNodes \/ end_node \notin KnownNodes)) =>
        /\ pc = "done"
        /\ response.status = 404
        /\ response.valid_nodes = MAP_NODE_KEYS(mapId)
        /\ mapId = "reference" =>
             response.valid_nodes = <<"A_Home", "B_Intersection", "C_Risky_Area",
                                      "D_Intersection", "E_Work">>
        /\ response.path_nodes = <<>>
        /\ graph = EmptyGraph
        /\ queries = 0
        /\ ~searched

\* planRoute(A_Home, "Z_Unknown") on the reference map has been answered.
C3_Witness ==
    /\ pc = "done"
    /\ mapId = "reference"
    /\ start_node = "A_Home" /\ end_node = "Z_Unknown"
    /\ response.status = 404
    /\ Len(response.valid_nodes) = 5

(***************************************************************************)
(* C4                                                                      *)
(***************************************************************************)

PathEdgeWeights(G, p) == {WeightOf(G, p[k], p[k + 1]) : k \in 1..(Len(p) - 1)}

\* The graph with only the edges whose midpoint is in no zone of Z.
OutsideGraph(G, Z) ==
    [G EXCEPT !.edges = SelectSeq(@, LAMBDA ed : ~EdgeInZone(ed.u, ed.v, Z))]

\* C4: when the built graph joins start_node to end_node by weight-1 edges
\* alone, the returned path has no weight-100 edge; when all lookups of the
\* request read one table state Z the same holds with "in a zone of Z" in
\* place of "weight 100"; and with B-C and C-E at 100 and A-B, B-D, D-E at 1
\* the route from A_Home to E_Work is A_Home, B_Intersection, D_Intersection,
\* E_Work, of total weight 3.
C4_RiskAvoidance ==
    Succeeded =>
        LET p == response.path_nodes
        IN /\ IsWalk(graph, p)
           /\ end_node \in DOMAIN MinDist(ZoneFreeGraph(graph), start_node)
                => 100 \notin PathEdgeWeights(graph, p)
           /\ \A Z \in observed :
                (/\ observed = {Z}
                 /\ end_node \in DOMAIN MinDist(OutsideGraph(graph, Z), start_node))
                => \A k \in 1..(Len(p) - 1) : ~EdgeInZone(p[k], p[k + 1], Z)
           /\ (/\ start_node = "A_Home" /\ end_node = "E_Work"
               /\ WeightOf(graph, "A_Home", "B_Intersection") = 1
               /\ WeightOf(graph, "B_Intersection", "C_Risky_Area") = 100
               /\ WeightOf(graph, "C_Risky_Area", "E_Work") = 100
               /\ WeightOf(graph, "B_Intersection", "D_Intersection") = 1
               /\ WeightOf(graph, "D_Intersection", "E_Work") = 1)
              => /\ p = <<"A_Home", "B_Intersection", "D_Intersection", "E_Work">>
                 /\ WalkWeight(graph, p, 1) = 3

\* Scenario A answered: only EastVillage in the table, read by all lookups.
C4_Witness ==
    /\ Succeeded
    /\ mapId = "reference"
    /\ start_node = "A_Home" /\ end_node = "E_Work"
    /\ observed = {risk_zones}
    /\ {z.name : z \in risk_zones} = {"EastVillage"}
    /\ response.path_nodes = <<"A_Home", "B_Intersection", "D_Intersection", "E_Work">>

(***************************************************************************)
(* C5                                                                      *)
(***************************************************************************)

\* C5: the weights of a built graph all come from one and the same table
\* state among those the request's lookups read, also when the table is
\* changed between two lookups of the build.
C5_SingleSnapshot ==
    Built =>
        \E Z \in observed :
            \A k \in 1..Len(graph.edges) :
                graph.edges[k].weight =
                    ExpectedWeight(graph.edges[k].u, graph.edges[k].v, Z)

(***************************************************************************)
(* C6                                                                      *)
(***************************************************************************)

\* What a request naming an unknown node is answered with.
UnknownNodeOutcome ==
    [status |-> 404, path_nodes |-> <<>>, path_coordinates |-> <<>>,
     detail |-> "No path found or invalid nodes provided. Valid nodes are: ",
     valid_nodes |-> MAP_NODE_KEYS(mapId)]

DeclaredEdge(a, b) ==
    \E k \in 1..Len(MAP_EDGES) : MAP_EDGES[k] = <<a, b>> \/ MAP_EDGES[k] = <<b, a>>

\* C7: the node sequence of every successful response starts at start_node,
\* ends at end_node, has one element only when the two are equal, and every
\* two consecutive nodes of it are joined by a declared edge of the graph.
C7_WellFormedPath ==
    Succeeded =>
        LET p == response.path_nodes
        IN /\ Len(p) >= 1
           /\ p[1] = start_node
           /\ p[Len(p)] = end_node
           /\ (Len(p) = 1) <=> (start_node = end_node)
           /\ \A k \in 1..(Len(p) - 1) :
                DeclaredEdge(p[k], p[k + 1]) /\ HasEdge(graph, p[k], p[k + 1])

\* A four-node route answered, from E_Work back to A_Home.
C7_Witness ==
    /\ Succeeded
    /\ start_node = "E_Work" /\ end_node = "A_Home"
    /\ Len(response.path_nodes) = 4

(***************************************************************************)
(* C8                                                                      *)
(***************************************************************************)

\* The built graph with every weight replaced by the one the table state Z
\* gives the edge.
GraphFor(G, Z) ==
    [G EXCEPT !.edges =
        [k \in 1..Len(G.edges) |->
            [G.edges[k] EXCEPT !.weight = ExpectedWeight(G.edges[k].u, G.edges[k].v, Z)]]]

\* C8: a built graph has one weight per declared edge, each obtained by a
\* query of this request and equal to the weight under a table state read
\* during this request, whatever earlier requests computed; and when the
\* lookups of a request all read one table state Z, the graph is the graph of
\* Z and the answer is a least-weight route under Z.
C8_FreshWeights ==
    /\ Built =>
         /\ queries = Len(MAP_EDGES)
         /\ Len(graph.edges) = Len(MAP_EDGES)
         /\ observed # {}
         /\ \A k \in 1..Len(graph.edges) :
              \E Z \in observed :
                 graph.edges[k].weight =
                     ExpectedWeight(graph.edges[k].u, graph.edges[k].v, Z)
    /\ \A Z \in observed :
         (Built /\ observed = {Z}) => graph = GraphFor(graph, Z)
    /\ (Succeeded /\ Cardinality(observed) = 1) =>
         LET Z     == CHOOSE T \in observed : TRUE
             GZ    == GraphFor(graph, Z)
             least == MinDist(GZ, start_node)
         IN /\ IsWalk(GZ, response.path_nodes)
            /\ end_node \in DOMAIN least
            /\ WalkWeight(GZ, response.path_nodes, 1) = least[end_node]

\* A request answered after an earlier answer and a change of the table since:
\* with Flatiron alone in the table the route goes through C_Risky_Area.
C8_Witness ==
    /\ Succeeded
    /\ sinceAnswer = "changed"
    /\ observed = {risk_zones}
    /\ {z.name : z \in risk_zones} = {"Flatiron"}
    /\ start_node = "A_Home" /\ end_node = "E_Work"
    /\ response.path_nodes = <<"A_Home", "B_Intersection", "C_Risky_Area", "E_Work">>

(***************************************************************************)
(* C9                                                                      *)
(***************************************************************************)

\* C9: once a risk-zone lookup of a request has failed, the request is over
\* with a server error and no route, the search is never called, and the
\* failed lookup has added no edge to the graph.
C9_LookupFailureFails ==
    lookupFailed =>
        /\ pc = "done"
        /\ response.status = 500
        /\ response.path_nodes = <<>>
        /\ response.path_coordinates = <<>>
        /\ ~searched
        /\ Len(graph.edges) = queries - 1

\* The third lookup of a build failed after two that succeeded.
C9_Witness ==
    /\ lookupFailed
    /\ pc = "done"
    /\ queries = 3
    /\ Len(graph.edges) = 2
    /\ response.status = 500

(***************************************************************************)
(* C10                                                                     *)
(***************************************************************************)

\* C10 as stated: every answered request with start_node = end_node = n, n a
\* known node, is a success with the node sequence <<n>>.
C10_SelfRouteAlways ==
    (pc = "done" /\ start_node = end_node /\ start_node \in KnownNodes) =>
        /\ response.status = 200
        /\ response.path_nodes = <<start_node>>

\* C10, amended: every answered request with start_node = end_node = n, n a
\* known node, none of whose risk-zone lookups failed, is a success with the
\* node sequence <<n>> and the coordinates of n, under every table state and
\* every mix of table states read by the build.
C10_SelfRoute ==
    (pc = "done" /\ start_node = end_node /\ start_node \in KnownNodes /\ ~lookupFailed) =>
        /\ searched
        /\ response.status = 200
        /\ response.path_nodes = <<start_node>>
        /\ response.path_coordinates = <<NodeCoords[start_node]>>

\* C_Risky_Area to itself, answered with every zone of the catalogue present.
C10_Witness ==
    /\ Succeeded
    /\ start_node = "C_Risky_Area" /\ end_node = "C_Risky_Area"
    /\ risk_zones = ZoneCatalogue
    /\ response.path_nodes = <<"C_Risky_Area">>

(***************************************************************************)
(* C11                                                                     *)
(***************************************************************************)

UserIds == {1, 2}

PhoneNumbers == {"+15550001", "+15550002"}

\* Locations a client may report, as (lon, lat).
Points == {<<-739860, 407328>>}

\* POST /users
create_user ==
    /\ ~user.exists
    /\ user' = [exists |-> TRUE, name |-> "Asha",
                last_known_location |-> NoLocation, guardians |-> <<>>]
    /\ UNCHANGED <<routeVars, sosPc, sosUser, guardianIx, sent_messages,
                   sosResponse, attempts, clientFailed>>

\* POST /users/1/guardians
create_guardian_for_user(phone_number) ==
    /\ user.exists
    /\ Len(user.guardians) < MaxGuardians
    /\ user' = [user EXCEPT !.guardians =
                   Append(@, [id |-> Len(@) + 1, phone_number |-> phone_number])]
    /\ UNCHANGED <<routeVars, sosPc, sosUser, guardianIx, sent_messages,
                   sosResponse, attempts, clientFailed>>

\* POST /users/1/location
update_user_location(point) ==
    /\ user.exists
    /\ user.last_known_location # point
    /\ user' = [user EXCEPT !.last_known_location = point]
    /\ UNCHANGED <<routeVars, sosPc, sosUser, guardianIx, sent_messages,
                   sosResponse, attempts, clientFailed>>

SosError(status, detail) == [status |-> status, detail |-> detail, details |-> <<>>]

\* message_body: to_shape gives x = lon, y = lat.
MessageBody(u) ==
    [name      |-> u.name,
     lat       |-> u.last_known_location[2],
     lon       |-> u.last_known_location[1],
     maps_link |-> <<u.last_known_location[2], u.last_known_location[1]>>]

\* create_sos_alert up to the loop: the three checks of the loaded user and
\* the construction of the Twilio client, which raises or not.
create_sos_alert(user_id, clientOk) ==
    /\ sosPc = "idle"
    /\ LET found == IF user.exists /\ user_id = 1 THEN user ELSE NoUser
           begun == /\ found.exists
                    /\ found.guardians # <<>>
                    /\ found.last_known_location # NoLocation
       IN /\ sosUser' = found
          /\ clientFailed' = (begun /\ ~clientOk)
          /\ sosPc' = IF begun /\ clientOk THEN "send" ELSE "done"
          /\ sosResponse' =
                IF ~found.exists THEN SosError(404, "User not found")
                ELSE IF found.guardians = <<>>
                THEN SosError(400, "User has no guardians registered")
                ELSE IF found.last_known_location = NoLocation
                THEN SosError(400, "User location is unknown")
                ELSE IF ~clientOk
                THEN SosError(500, "Twilio configuration error")
                ELSE NoSosResponse
    /\ guardianIx' = 1
    /\ sent_messages' = <<>>
    /\ attempts' = <<>>
    /\ UNCHANGED <<routeVars, user>>

\* if not sent_messages: 500, else the success with the list.
SosResult(sent) ==
    IF sent = <<>>
    THEN SosError(500, "Failed to send SMS to any guardian.")
    ELSE [status |-> 200, detail |-> "SOS alerts sent successfully", details |-> sent]

\* One turn of the loop over user.guardians: messages.create returns a
\* message or raises; the except clause only prints.  After the last
\* guardian the handler answers.
SendStep(ok) ==
    /\ sosPc = "send"
    /\ guardianIx <= Len(sosUser.guardians)
    /\ LET guardian == sosUser.guardians[guardianIx]
           sent     == IF ok
                       THEN Append(sent_messages,
                                   [to |-> guardian.phone_number, sid |-> guardianIx])
                       ELSE sent_messages
       IN /\ attempts' = Append(attempts, [to   |-> guardian.phone_number,
                                           body |-> MessageBody(sosUser),
                                           ok   |-> ok])
          /\ sent_messages' = sent
          /\ IF guardianIx = Len(sosUser.guardians)
             THEN /\ sosPc' = "done"
                  /\ sosResponse' = SosResult(sent)
                  /\ UNCHANGED guardianIx
             ELSE /\ guardianIx' = guardianIx + 1
                  /\ UNCHANGED <<sosPc, sosResponse>>
    /\ UNCHANGED <<routeVars, user, sosUser, clientFailed>>

SendOk == SendStep(TRUE)

\* The send without its try/except: messages.create raises out of the handler.
SendFails_aborts ==
    /\ sosPc = "send"
    /\ guardianIx <= Len(sosUser.guardians)
    /\ attempts' = Append(attempts, [to   |-> sosUser.guardians[guardianIx].phone_number,
                                     body |-> MessageBody(sosUser),
                                     ok   |-> FALSE])
    /\ sosPc' = "done"
    /\ sosResponse' = SosError(500, "Internal Server Error")
    /\ UNCHANGED <<routeVars, user, sosUser, clientFailed, guardianIx, sent_messages>>

SendFails == SendStep(FALSE)

\* The answer has gone out; the handler's locals are dropped.
SosReturn ==
    /\ sosPc = "done"
    /\ sosPc' = "idle"
    /\ sosUser' = NoUser
    /\ guardianIx' = 1
    /\ sent_messages' = <<>>
    /\ sosResponse' = NoSosResponse
    /\ attempts' = <<>>
    /\ clientFailed' = FALSE
    /\ UNCHANGED <<routeVars, user>>

NextSos ==
    \/ create_user
    \/ \E phone_number \in PhoneNumbers : create_guardian_for_user(phone_number)
    \/ \E point \in Points : update_user_location(point)
    \/ \E user_id \in UserIds, clientOk \in BOOLEAN : create_sos_alert(user_id, clientOk)
    \/ SendOk
    \/ SendFails
    \/ SosReturn

SpecSos == Init /\ [][NextSos]_vars

(***************************************************************************)
(* C12                                                                     *)
(***************************************************************************)

\* The loaded user exists, has a guardian and has a location.
SosPreconditions ==
    /\ sosUser.exists
    /\ sosUser.guardians # <<>>
    /\ sosUser.last_known_location # NoLocation

GuardianPhones == [k \in 1..Len(sosUser.guardians) |-> sosUser.guardians[k].phone_number]

AttemptedPhones == [k \in 1..Len(attempts) |-> attempts[k].to]

SucceededPhones ==
    LET won == SelectSeq(attempts, LAMBDA a : a.ok)
    IN [k \in 1..Len(won) |-> won[k].to]

ListedPhones == [k \in 1..Len(sosResponse.details) |-> sosResponse.details[k].to]

SosOutcome ==
    /\ AttemptedPhones = GuardianPhones
    /\ sosResponse.status \in {200, 500}
    /\ (\E k \in 1..Len(attempts) : attempts[k].ok) =>
          (sosResponse.status = 200 /\ ListedPhones = SucceededPhones)
    /\ (sosResponse.status = 500) <=> (\A k \in 1..Len(attempts) : ~attempts[k].ok)

\* C12 as stated: every answered SOS request of a user that exists, has a
\* guardian and has a location tried one SMS per guardian, in order; it is a
\* success listing exactly the guardians whose send succeeded when one did,
\* and a 500 if and only if every send failed.
C12_SosAsStated == (sosPc = "done" /\ SosPreconditions) => SosOutcome

\* C12, amended: the same for every such request for which the Twilio client
\* was constructed; while the loop runs, one send has been tried for each
\* guardian before the current one, whatever the outcomes; and when the
\* client cannot be constructed the answer is a 500 with no send tried.
C12_SosAlert ==
    /\ (sosPc = "done" /\ SosPreconditions /\ ~clientFailed) => SosOutcome
    /\ sosPc = "send" =>
          /\ SosPreconditions
          /\ Len(attempts) = guardianIx - 1
          /\ \A k \in 1..Len(attempts) : attempts[k].to = GuardianPhones[k]
    /\ clientFailed =>
          /\ sosPc = "done"
          /\ sosResponse.status = 500
          /\ attempts = <<>>

\* Two guardians: the send to the first failed, the send to the second was
\* still tried and succeeded, and the answer lists the second alone.
C12_Witness ==
    /\ sosPc = "done"
    /\ Len(attempts) = 2
    /\ ~attempts[1].ok /\ attempts[2].ok
    /\ attempts[1].to # attempts[2].to
    /\ sosResponse.status = 200
    /\ ListedPhones = <<attempts[2].to>>

====
